---- MODULE Spec2Model ----
(***************************************************************************)
(* One scenario run of the transmission-tower field solver:                *)
(* run_single_case (examples/batch_analysis.py) calling                    *)
(* solve_tower_electric_field (tower_em_solver.py).                        *)
(*                                                                         *)
(* The run is a sequential program; pc is its position.  The mesh file,    *)
(* the behaviour of the DMPlex label interface and the outcome of every    *)
(* linear solve are the environment: the mesh file is fixed in Init, the   *)
(* other outcomes are chosen where the code meets them.                    *)
(*                                                                         *)
(* Units.  Voltages are held in millivolts and the unit phasor exp(j*phi)  *)
(* in thousandths, with the phase angle in degrees.  A permittivity is     *)
(* held as epsilon_r * 10^4 (in units of epsilon0).  A conductivity is a   *)
(* record [w, p] standing for w S/m + p * 1e-12 S/m.                       *)
(***************************************************************************)
EXTENDS Integers, Sequences, FiniteSets, TLC

(***************************************************************************)
(* Bounds of the model.                                                    *)
(***************************************************************************)
\* cells of the mesh
NumCells == 2
\* boundary identifiers a mesh file may lack, among the nominal ones
MaxMissing == 1
\* instants of the clock per second of the timestamp
TicksPerSecond == 2

(***************************************************************************)
(* Program constants.                                                      *)
(***************************************************************************)
\* range(1, 25): the probed boundary identifiers are 1..ProbeLast
ProbeLast == 24
\* FunctionSpace(mesh, "DG", 1) on a tetrahedral mesh: 4 nodes per cell
DofsPerCell == 4
\* 120e3 V, the peak line-to-ground voltage
VPeak == 120000

VARIABLES
    mesh_file,          \* the mesh file on disk (environment)
    max_conductivity,   \* argument of solve_tower_electric_field
    pc,                 \* position of the run
    valid_bc_ids,       \* identifiers the probe found usable
    probe_raised,       \* identifiers whose probe raised (printed only)
    bcs_real,           \* Dirichlet constraints of the real potential
    bcs_imag,           \* Dirichlet constraints of the imaginary potential
    use_spatial_method, \* TRUE: the geometric strategy is to run
    dm_fault,           \* what went wrong in the DMPlex block, if anything
    epsilon_fn,         \* permittivity, one value per DG1 node
    sigma_fn,           \* conductivity, one value per DG1 node
    phi_real,           \* real potential
    phi_imag,           \* imaginary potential
    stage1_phi_real,    \* saved copy of the seed-stage real potential
    stage1_phi_imag,    \* saved copy of the seed-stage imaginary potential
    attempts,           \* the calls of solve() made so far, in order
    exc,                \* the exception propagating out of the solver
    files,              \* dataset files written by this run
    ret,                \* return value of solve_tower_electric_field
    case_result,        \* the tuple returned by run_single_case
    start_time,         \* the instant at which the run reads the clock
    earlier_runs,       \* start instants of earlier runs (same directory
                        \* and file stem) whose dataset is on disk
    disk,               \* the dataset files in the output directory
    export_error,       \* what the except clause of the export printed
    grad_phi_real,      \* -grad(phi_real), one vector per field node
    grad_phi_imag,      \* -grad(phi_imag), one vector per field node
    E_squared,          \* E_squared.dat.data
    E_mag,              \* E_mag.dat.data
    conductor_stats,    \* mean_conductor_field and max_conductor_field
    scaled_sigma,       \* scaled_sigma.dat.data
    simplified_sigma_fn,\* simplified_sigma_fn.dat.data
    systems,            \* the four bilinear forms
    batch_mode,         \* "parallel" (run_parallel) or "serial" (run_serial)
    max_workers,        \* size of the process pool
    now,                \* the time, in ticks
    futures,            \* one entry per submitted scenario, in order
    awaited,            \* index of the scenario whose result is collected
    wait_since,         \* when the pending future.result() was called
    results,            \* the list results
    batch_pc            \* position of the batch function

vars == <<mesh_file, max_conductivity, pc, valid_bc_ids, probe_raised,
          bcs_real, bcs_imag, use_spatial_method, dm_fault,
          epsilon_fn, sigma_fn, phi_real, phi_imag, stage1_phi_real,
          stage1_phi_imag, attempts, exc, files, ret, case_result,
          start_time, earlier_runs, disk, export_error, grad_phi_real,
          grad_phi_imag, E_squared, E_mag, conductor_stats,
          scaled_sigma, simplified_sigma_fn, systems,
          batch_mode, max_workers, now, futures, awaited, wait_since,
          results, batch_pc>>

\* the clock and the earlier runs: never written by the run
clock_vars == <<start_time, earlier_runs>>
\* what the post-processing computes
field_vars == <<grad_phi_real, grad_phi_imag, E_squared, E_mag,
                conductor_stats>>
\* what the assembly of the equations builds
assembly_vars == <<scaled_sigma, simplified_sigma_fn, systems>>
\* the state of one run of the solver
run_vars == <<mesh_file, max_conductivity, pc, valid_bc_ids, probe_raised,
              bcs_real, bcs_imag, use_spatial_method, dm_fault,
              epsilon_fn, sigma_fn, phi_real, phi_imag, stage1_phi_real,
              stage1_phi_imag, attempts, exc, files, ret, case_result,
              start_time, earlier_runs, disk, export_error, grad_phi_real,
              grad_phi_imag, E_squared, E_mag, conductor_stats,
              scaled_sigma, simplified_sigma_fn, systems>>
\* the batch around the run
batch_vars == <<batch_mode, max_workers, now, futures, awaited, wait_since,
                results, batch_pc>>
\* what the export leaves behind
out_vars == <<disk, export_error>>

Min(a, b) == IF a <= b THEN a ELSE b

(***************************************************************************)
(* Materials.                                                              *)
(***************************************************************************)
\* the keys of the dictionaries epsilon_r and sigma
MaterialIds == 1..9

\* epsilon_r, times 10^4
epsilon_r(id) ==
    CASE id = 1 -> 10006
      [] id = 8 -> 75000
      [] OTHER -> 10000

\* a conductivity of w S/m + p pS/m
Cond(w, p) == [w |-> w, p |-> p]

\* the dictionary sigma, built from the argument max_conductivity
sigma(id, mc) ==
    CASE id = 9 -> Cond(Min(5800000, mc), 0)
      [] id = 1 -> Cond(0, 0)
      [] id = 8 -> Cond(0, 1)
      [] OTHER -> Cond(Min(35000000, mc), 0)

(***************************************************************************)
(* The mesh.                                                               *)
(***************************************************************************)
Cells == 0..(NumCells - 1)
\* nodes of the DG1 space that holds the material fields
Dofs == 0..(NumCells * DofsPerCell - 1)
\* the nodes of cell c
DofsOfCell(c) == {d \in Dofs : d \div DofsPerCell = c}
CellOfDof(d) == d \div DofsPerCell

\* the identifiers the solver expects the mesh to carry
valid_boundaries(name) ==
    CASE name = "Tower"  -> 17
      [] name = "PhaseA" -> 11
      [] name = "PhaseB" -> 12
      [] name = "PhaseC" -> 13
      [] name = "Phasea" -> 14
      [] name = "Phaseb" -> 15
      [] name = "Phasec" -> 16
      [] name = "Box"    -> 10

\* the conductors, in the order their constraints are appended
ConductorOrder ==
    <<"Tower", "PhaseA", "PhaseB", "PhaseC", "Phasea", "Phaseb", "Phasec">>
ConductorNames == {ConductorOrder[k] : k \in 1..Len(ConductorOrder)}
NominalFacetIds == {valid_boundaries(n) : n \in ConductorNames \cup {"Box"}}

\* stratum values a cell may carry in "Cell Sets": 0 is no stratum,
\* 1 air, 8 insulator, 9 tower, 20 a value that is no material identifier
LabelValues == {0, 1, 9, 20}
\* the non-air regions of the geometric strategy whose mask is 1 at a point:
\* none, the tower, the insulators, or two neighbouring phase wires (they
\* lie x_size/6 apart and each mask reaches out to wire_radius +
\* transition_width = 0.11 * min(x_size, y_size) from its axis)
RegionChoices == {{}, {9}, {8}, {2, 3}}

NominalLabels == [c \in Cells |-> IF c = 0 THEN 1 ELSE 9]
NominalMasks == [c \in Cells |-> IF c = 0 THEN {} ELSE {9}]

MeshFile(ex, rd, fids, hcs, lab, bad, masks) ==
    [exists |-> ex, readable |-> rd, facet_ids |-> fids,
     has_cell_sets |-> hcs, cell_label |-> lab, offset_bad |-> bad,
     region_masks |-> masks]

NominalMesh ==
    MeshFile(TRUE, TRUE, NominalFacetIds, TRUE, NominalLabels, {}, NominalMasks)

\* meshes that lack some nominal boundary identifiers
BoundaryVariants ==
    {[NominalMesh EXCEPT !.facet_ids = NominalFacetIds \ D] :
        D \in {X \in SUBSET NominalFacetIds : Cardinality(X) <= MaxMissing}}

\* a choice for the first two cells, the cells after them like the second
Spread(f) == [c \in Cells |-> f[Min(c, 1)]]

\* meshes with other cell labels, or with cells the numbering cannot map
LabelVariants ==
    {[NominalMesh EXCEPT !.cell_label = lab, !.offset_bad = bad] :
        lab \in {Spread(f) : f \in [{0, 1} -> LabelValues]},
        bad \in {X \in SUBSET Cells : Cardinality(X) <= 1}}
    \cup {[NominalMesh EXCEPT !.has_cell_sets = FALSE,
                              !.cell_label = [c \in Cells |-> 0]]}

\* meshes whose cells lie in other regions of the geometric strategy
GeometryVariants ==
    {[NominalMesh EXCEPT !.region_masks = Spread(f)] :
        f \in [{0, 1} -> RegionChoices]}

MeshFiles ==
    BoundaryVariants \cup LabelVariants \cup GeometryVariants
    \cup {[NominalMesh EXCEPT !.exists = FALSE],
          [NominalMesh EXCEPT !.readable = FALSE]}

(***************************************************************************)
(* Geometry of the mesh and the field space.  The mesh is a strip of       *)
(* tetrahedra: cell c has the vertices c, c+1, c+2, c+3.  Coordinates are  *)
(* integers in a unit fine enough that edge midpoints and the 1% export    *)
(* margin are whole numbers.                                               *)
(***************************************************************************)
Vertices == 0..(NumCells + 2)
\* mesh.coordinates.dat.data, one row per vertex (the first NumCells + 3)
VertexTable ==
    << <<0, 0, 0>>, <<200, 200, 200>>, <<4, 100, 100>>, <<100, 4, 100>>,
       <<100, 100, 196>>, <<60, 120, 40>>, <<40, 160, 80>> >>
\* (here and below, "@@ <<>>" makes TLC tabulate the function once)
mesh_coords == [v \in Vertices |-> VertexTable[v + 1]] @@ <<>>

\* the vertex at which node d of the DG1 space sits
DofVertex(d) == CellOfDof(d) + (d % DofsPerCell)

\* the edges of the strip, each as its two end vertices
Edges == {e \in Vertices \X Vertices : e[1] < e[2] /\ e[2] - e[1] <= 3}
EdgeRank(e) == Cardinality({f \in Edges :
                    f[1] < e[1] \/ (f[1] = e[1] /\ f[2] < e[2])})

\* nodes of the CG2 space: the vertices, then the edge midpoints
FieldNodes == 0..(Cardinality(Vertices) + Cardinality(Edges) - 1)
\* the two vertices node i lies between (the same vertex twice for a
\* vertex node)
NodeEnds ==
    [i \in FieldNodes |->
        IF i \in Vertices THEN <<i, i>>
        ELSE CHOOSE e \in Edges : EdgeRank(e) = i - Cardinality(Vertices)] @@ <<>>
\* coordinates_fn.dat.data: the position of every node of the field space
field_coordinates ==
    [i \in FieldNodes |->
        [k \in 1..3 |-> (mesh_coords[NodeEnds[i][1]][k]
                         + mesh_coords[NodeEnds[i][2]][k]) \div 2]] @@ <<>>
\* the cells each node belongs to
CellsAround ==
    [i \in FieldNodes |->
        {c \in Cells : c <= NodeEnds[i][1] /\ NodeEnds[i][2] <= c + 3}] @@ <<>>
NodeCells(i) == CellsAround[i]

\* np.min and np.max of mesh_coords along each axis
axis_min ==
    [k \in 1..3 |->
        CHOOSE m \in {mesh_coords[v][k] : v \in Vertices} :
            \A v \in Vertices : m <= mesh_coords[v][k]] @@ <<>>
axis_max ==
    [k \in 1..3 |->
        CHOOSE m \in {mesh_coords[v][k] : v \in Vertices} :
            \A v \in Vertices : m >= mesh_coords[v][k]] @@ <<>>
AxisMin(k) == axis_min[k]
AxisMax(k) == axis_max[k]

MaxConductivities == {35000, 40000000}

(***************************************************************************)
(* Initial state: run_single_case is about to call the solver.             *)
(***************************************************************************)
\* a bilinear form: the coefficient of the gradient term, the sign and the
\* coefficient of the coupling term (times scaled_omega), the Robin term
Form(eps, sign, sig) ==
    [epsilon |-> eps, sign |-> sign, omega |-> "scaled_omega", sigma |-> sig,
     robin |-> "ds_box"]
NoForm == Form("none", 0, "none")
NoSystems ==
    [a_real |-> NoForm, a_imag |-> NoForm, simplified_a_real |-> NoForm,
     simplified_a_imag |-> NoForm]

\* the instants of the clock: one second and the first instant of the next
Instants == 0..TicksPerSecond
LastInstant == TicksPerSecond
\* time.strftime("%Y%m%d_%H%M%S"): the instant t, to the second
strftime(t) == t \div TicksPerSecond
\* a file of the output directory: its path (the timestamp in its name)
\* and the run that wrote it last
File(stamp, writer) == [path |-> stamp, writer |-> writer]

\* a field of the post-processing that is not created yet
NoField == <<>>
\* mean_conductor_field and max_conductor_field are not bound
NoStats == [present |-> FALSE, sum |-> 0, count |-> 0, max |-> 0]

\* run_single_case has not returned yet
NoResult == [done |-> FALSE, success |-> FALSE, cause |-> "none"]

ZeroEpsilon == [d \in Dofs |-> 0]
ZeroSigma == [d \in Dofs |-> Cond(0, 0)]

\* no batch: the run is called on its own
NoBatch ==
    /\ batch_mode = "none"
    /\ max_workers = 0
    /\ now = 0
    /\ futures = <<>>
    /\ awaited = 0
    /\ wait_since = 0
    /\ results = <<>>
    /\ batch_pc = "none"

\* the run is about to start
InitRun ==
    /\ max_conductivity \in MaxConductivities
    /\ \/ \* any mesh file, no earlier run
          /\ mesh_file \in MeshFiles
          /\ start_time = LastInstant
          /\ earlier_runs = {}
       \/ \* the nominal mesh, after one earlier run
          /\ mesh_file = NominalMesh
          /\ start_time \in Instants
          /\ \E t \in Instants : t < start_time /\ earlier_runs = {t}
    /\ disk = {File(strftime(t), "earlier") : t \in earlier_runs}
    /\ export_error = "none"
    /\ grad_phi_real = NoField
    /\ grad_phi_imag = NoField
    /\ E_squared = NoField
    /\ E_mag = NoField
    /\ conductor_stats = NoStats
    /\ scaled_sigma = NoField
    /\ simplified_sigma_fn = NoField
    /\ systems = NoSystems
    /\ pc = "start"
    /\ valid_bc_ids = {}
    /\ probe_raised = {}
    /\ bcs_real = <<>>
    /\ bcs_imag = <<>>
    /\ use_spatial_method = TRUE
    /\ dm_fault = "none"
    /\ epsilon_fn = ZeroEpsilon
    /\ sigma_fn = ZeroSigma
    /\ phi_real = "zero"
    /\ phi_imag = "zero"
    /\ stage1_phi_real = "zero"
    /\ stage1_phi_imag = "zero"
    /\ attempts = <<>>
    /\ exc = "none"
    /\ files = {}
    /\ ret = "none"
    /\ case_result = NoResult

Init == NoBatch /\ InitRun

(***************************************************************************)
(* Entry: output directory, timestamped file name, mesh file check.        *)
(***************************************************************************)
\* os.path.exists(mesh_file)
MeshFileExists_Always == TRUE
MeshFileExists == mesh_file.exists

Start ==
    /\ pc = "start"
    /\ IF MeshFileExists
          THEN /\ pc' = "load_mesh"
               /\ ret' = ret
          ELSE /\ pc' = "solver_returned"
               /\ ret' = "False"
    /\ UNCHANGED <<mesh_file, max_conductivity, valid_bc_ids, probe_raised,
                   bcs_real, bcs_imag, use_spatial_method, dm_fault,
                   epsilon_fn, sigma_fn, phi_real, phi_imag, stage1_phi_real,
                   stage1_phi_imag, attempts, exc, files, case_result,
                   clock_vars, assembly_vars, batch_vars, field_vars, out_vars>>

\* mesh = Mesh(mesh_file): an unreadable file raises out of the solver
LoadMesh ==
    /\ pc = "load_mesh"
    /\ IF mesh_file.readable
          THEN /\ pc' = "probe"
               /\ exc' = exc
          ELSE /\ pc' = "raised"
               /\ exc' = "MeshError"
    /\ UNCHANGED <<mesh_file, max_conductivity, valid_bc_ids, probe_raised,
                   bcs_real, bcs_imag, use_spatial_method, dm_fault,
                   epsilon_fn, sigma_fn, phi_real, phi_imag, stage1_phi_real,
                   stage1_phi_imag, attempts, files, ret, case_result,
                   clock_vars, assembly_vars, batch_vars, field_vars, out_vars>>

(***************************************************************************)
(* Boundary identifiers: the probe, then the Dirichlet lists.              *)
(***************************************************************************)
ProbeIds == 1..ProbeLast

\* for bc_id in range(1, 25): a trial DirichletBC on each identifier.  An
\* identifier the mesh lacks gives no node, or makes the probe raise,
\* depending on the library; both leave it out of valid_bc_ids.
ProbeBoundaryIds ==
    /\ pc = "probe"
    /\ \E raises \in BOOLEAN :
          /\ valid_bc_ids' = {id \in ProbeIds : id \in mesh_file.facet_ids}
          /\ probe_raised' =
                IF raises THEN {id \in ProbeIds : id \notin mesh_file.facet_ids}
                          ELSE {}
    /\ pc' = "build_bcs"
    /\ UNCHANGED <<mesh_file, max_conductivity, bcs_real, bcs_imag,
                   use_spatial_method, dm_fault, epsilon_fn,
                   sigma_fn, phi_real, phi_imag, stage1_phi_real,
                   stage1_phi_imag, attempts, exc, files, ret, case_result,
                   clock_vars, assembly_vars, batch_vars, field_vars, out_vars>>

\* phase angles, in degrees (0, 2*pi/3, 4*pi/3 radians)
phi_A == 0
phi_B == 120
phi_C == 240
phi_a == 0
phi_b == 120
phi_c == 240

\* cos and sin in thousandths, rounded, at the multiples of 30 degrees
CosMilli(deg) ==
    CASE deg = 0   -> 1000
      [] deg = 30  -> 866
      [] deg = 60  -> 500
      [] deg = 90  -> 0
      [] deg = 120 -> -500
      [] deg = 150 -> -866
      [] deg = 180 -> -1000
      [] deg = 210 -> -866
      [] deg = 240 -> -500
      [] deg = 270 -> 0
      [] deg = 300 -> 500
      [] deg = 330 -> 866
SinMilli(deg) == CosMilli((deg + 270) % 360)

\* 120e3 * np.exp(1j * phi), in millivolts
Phasor(deg) == [real |-> VPeak * CosMilli(deg), imag |-> VPeak * SinMilli(deg)]

V_Tower  == [real |-> 0, imag |-> 0]
V_PhaseA == Phasor(phi_A)
V_PhaseB == Phasor(phi_B)
V_PhaseC == Phasor(phi_C)
V_Phasea == Phasor(phi_a)
V_Phaseb_Swapped == Phasor(phi_c)
V_Phaseb == Phasor(phi_b)
V_Phasec == Phasor(phi_c)

\* the voltage the code pairs with each conductor's identifier
ConductorVoltage(name) ==
    CASE name = "Tower"  -> V_Tower
      [] name = "PhaseA" -> V_PhaseA
      [] name = "PhaseB" -> V_PhaseB
      [] name = "PhaseC" -> V_PhaseC
      [] name = "Phasea" -> V_Phasea
      [] name = "Phaseb" -> V_Phaseb
      [] name = "Phasec" -> V_Phasec

\* DirichletBC(V, Constant(g), sub_domain)
DirichletBC(V, g, sub_domain) == [V |-> V, g |-> g, sub_domain |-> sub_domain]

\* "if valid_boundaries[name]:" tests the identifier itself, an integer
Truthy(v) == v # 0

\* the conductors whose "if" lets their two constraints be appended
Constrained == SelectSeq(ConductorOrder, LAMBDA n : Truthy(valid_boundaries(n)))

\* Where the probe of an identifier raised, building a constraint on it
\* again, outside any try block, may raise as well
MayRaiseOnBuild ==
    \E k \in 1..Len(Constrained) :
        valid_boundaries(Constrained[k]) \in probe_raised

BuildDirichletBCs ==
    /\ pc = "build_bcs"
    /\ \/ /\ bcs_real' = [k \in 1..Len(Constrained) |->
                            DirichletBC("V_real",
                                        ConductorVoltage(Constrained[k]).real,
                                        valid_boundaries(Constrained[k]))]
          /\ bcs_imag' = [k \in 1..Len(Constrained) |->
                            DirichletBC("V_imag",
                                        ConductorVoltage(Constrained[k]).imag,
                                        valid_boundaries(Constrained[k]))]
          /\ pc' = "materials"
          /\ exc' = exc
       \/ /\ MayRaiseOnBuild
          /\ pc' = "raised"
          /\ exc' = "BoundaryError"
          /\ UNCHANGED <<bcs_real, bcs_imag>>
    /\ UNCHANGED <<mesh_file, max_conductivity, valid_bc_ids, probe_raised,
                   use_spatial_method, dm_fault, epsilon_fn,
                   sigma_fn, phi_real, phi_imag, stage1_phi_real,
                   stage1_phi_imag, attempts, files, ret, case_result,
                   clock_vars, assembly_vars, batch_vars, field_vars, out_vars>>

(***************************************************************************)
(* Material fields: the DMPlex labels first, the coordinates otherwise.    *)
(***************************************************************************)
\* the values of the "Cell Sets" label
Strata == {mesh_file.cell_label[c] : c \in Cells} \ {0}

\* the cell indices collected for stratum s: a cell whose getOffset raises
\* or is negative is left out
CellIndices(s) ==
    {c \in Cells : mesh_file.cell_label[c] = s /\ c \notin mesh_file.offset_bad}

\* the strata among done whose loop wrote data[d]: "data[cell] = ..." writes
\* the entry of the node array whose index is the cell's number
WritersOf(d, done) == {s \in done \cap MaterialIds : d \in CellIndices(s)}

\* the fields after the default assignment and the loops of the strata done
LabelledEpsilon(done) ==
    [d \in Dofs |->
        IF WritersOf(d, done) = {}
           THEN epsilon_r(1)
           ELSE epsilon_r(CHOOSE s \in WritersOf(d, done) : TRUE)]
LabelledSigma(done, mc) ==
    [d \in Dofs |->
        IF WritersOf(d, done) = {}
           THEN sigma(1, mc)
           ELSE sigma(CHOOSE s \in WritersOf(d, done) : TRUE, mc)]

\* a cell of a stratum in done was dropped by the inner "except: pass"
CellFault(done) ==
    \E c \in mesh_file.offset_bad : mesh_file.cell_label[c] \in done

\* where the run goes once the material fields are set: sections 7 and 8
\* build the source, the scaled coefficients and the forms before any
\* solve
AfterMaterials_SkipAssembly == "seed_real"
AfterMaterials == "assemble"

\* the try block.  It may raise before the label is looked up, or, once
\* "Cell Sets" is found, after the strata in done have been handled.
ClassifyTopological ==
    /\ pc = "materials"
    /\ \/ \* raised before dm.hasLabel("Cell Sets")
          /\ use_spatial_method' = TRUE
          /\ dm_fault' = "outer"
          /\ UNCHANGED <<epsilon_fn, sigma_fn>>
       \/ \* no "Cell Sets" label
          /\ ~mesh_file.has_cell_sets
          /\ use_spatial_method' = use_spatial_method
          /\ UNCHANGED <<dm_fault, epsilon_fn, sigma_fn>>
       \/ \* every stratum handled
          /\ mesh_file.has_cell_sets
          /\ use_spatial_method' = FALSE
          /\ epsilon_fn' = LabelledEpsilon(Strata)
          /\ sigma_fn' = LabelledSigma(Strata, max_conductivity)
          /\ dm_fault' = IF CellFault(Strata) THEN "cell" ELSE "none"
       \/ \* raised after the default assignment, the strata in done handled
          /\ mesh_file.has_cell_sets
          /\ \E done \in SUBSET Strata :
                /\ epsilon_fn' = LabelledEpsilon(done)
                /\ sigma_fn' = LabelledSigma(done, max_conductivity)
          /\ use_spatial_method' = TRUE
          /\ dm_fault' = "outer"
    /\ pc' = IF use_spatial_method' THEN "geometric" ELSE AfterMaterials
    /\ UNCHANGED <<mesh_file, max_conductivity, valid_bc_ids, probe_raised,
                   bcs_real, bcs_imag, phi_real, phi_imag, stage1_phi_real,
                   stage1_phi_imag, attempts, exc, files, ret, case_result,
                   clock_vars, assembly_vars, batch_vars, field_vars, out_vars>>

\* the non-air regions: tower 9, phases 2..7, insulators 8
RegionIds == 2..9

RECURSIVE SumEpsilon(_)
SumEpsilon(S) ==
    IF S = {} THEN 0
    ELSE LET r == CHOOSE x \in S : TRUE
         IN  epsilon_r(r) + SumEpsilon(S \ {r})

RECURSIVE SumSigma(_, _)
SumSigma(S, mc) ==
    IF S = {} THEN Cond(0, 0)
    ELSE LET r == CHOOSE x \in S : TRUE
             rest == SumSigma(S \ {r}, mc)
         IN  Cond(sigma(r, mc).w + rest.w, sigma(r, mc).p + rest.p)

\* air_region: 0 where the sum of the region masks is positive, else 1
air_region_Everywhere(masks) == 1
air_region(masks) == IF Cardinality(masks) > 0 THEN 0 ELSE 1

\* epsilon_expression and sigma_expression at a node where the regions in
\* masks have mask 1
epsilon_expression(masks) ==
    SumEpsilon(masks) + air_region(masks) * epsilon_r(1)
sigma_expression(masks, mc) ==
    LET s == SumSigma(masks, mc)
    IN  Cond(s.w + air_region(masks) * sigma(1, mc).w,
             s.p + air_region(masks) * sigma(1, mc).p)

\* "if use_spatial_method:" both fields are interpolated from the regions.
\* Building the region expressions may raise instead, outside any try
\* block: the tower region calls between(), a name the module neither
\* defines nor is known to import, and the insulator region divides by
\* insulator_height/2, where insulator_height = (phase_z_level -
\* tower_z_max) * 0.3 is zero up to rounding for every bounding box.
ClassifyGeometric ==
    /\ pc = "geometric"
    /\ \/ /\ epsilon_fn' =
                [d \in Dofs |->
                    epsilon_expression(mesh_file.region_masks[CellOfDof(d)])]
          /\ sigma_fn' =
                [d \in Dofs |->
                    sigma_expression(mesh_file.region_masks[CellOfDof(d)],
                                     max_conductivity)]
          /\ pc' = AfterMaterials
          /\ exc' = exc
       \/ /\ UNCHANGED <<epsilon_fn, sigma_fn>>
          /\ pc' = "raised"
          /\ exc' = "RegionError"
    /\ UNCHANGED <<mesh_file, max_conductivity, valid_bc_ids, probe_raised,
                   bcs_real, bcs_imag, use_spatial_method, dm_fault, phi_real,
                   phi_imag, stage1_phi_real, stage1_phi_imag, attempts,
                   files, ret, case_result,
                   clock_vars, assembly_vars, batch_vars, field_vars, out_vars>>

(***************************************************************************)
(* The equations: scaled coefficients and the forms of both stages.        *)
(***************************************************************************)
\* a coefficient value c * 10^k, for a conductivity c
Scaled(c, k) == [m |-> c, e |-> k]
\* f.assign(sig * 10^k)
ScaledField(sig, k) == [d \in Dofs |-> Scaled(sig[d], k)]

\* sigma_scale = 1.0e-5 and simplified_sigma_scale = 0.1, as powers of ten
sigma_scale == -5
simplified_sigma_scale == -1

\* sections 7 and 8 up to the first solve: the full-stage forms couple
\* through scaled_sigma, the seed-stage forms through simplified_sigma_fn
AssembleEquations ==
    /\ pc = "assemble"
    /\ scaled_sigma' = ScaledField(sigma_fn, sigma_scale)
    /\ simplified_sigma_fn' = ScaledField(sigma_fn, simplified_sigma_scale)
    /\ systems' =
          [a_real |-> Form("scaled_epsilon", -1, "scaled_sigma"),
           a_imag |-> Form("scaled_epsilon", 1, "scaled_sigma"),
           simplified_a_real |->
               Form("scaled_epsilon", -1, "simplified_sigma_fn"),
           simplified_a_imag |->
               Form("scaled_epsilon", 1, "simplified_sigma_fn")]
    /\ pc' = "seed_real"
    /\ UNCHANGED <<mesh_file, max_conductivity, valid_bc_ids, probe_raised,
                   bcs_real, bcs_imag, use_spatial_method, dm_fault,
                   epsilon_fn, sigma_fn, phi_real, phi_imag, stage1_phi_real,
                   stage1_phi_imag, attempts, exc, files, ret, case_result,
                   clock_vars, batch_vars, field_vars, out_vars>>

(***************************************************************************)
(* The two-stage solve.  A potential is "zero", the result "seed" of a     *)
(* seed-stage solve, the result "full" of a full-stage solve, or "partial" *)
(* (whatever a solve that raised left in it).                              *)
(***************************************************************************)
Attempt(stage, part, method, ok) ==
    [stage |-> stage, part |-> part, method |-> method, ok |-> ok]

\* what a solve that raised may leave in the potential p it was given
LeftBy(p) == {p, "partial"}

\* the except clause of the seed stage, entered with potentials re and im
ResetSeedImagOnly(re, im) == [real |-> re, imag |-> "zero"]
ResetSeed(re, im) == [real |-> "zero", imag |-> "zero"]

\* solve(simplified_a_real == L_real, phi_real, ...) inside the try block
SeedSolveReal ==
    /\ pc = "seed_real"
    /\ \E ok \in BOOLEAN :
          /\ attempts' = Append(attempts, Attempt("seed", "real", "direct", ok))
          /\ IF ok
                THEN /\ phi_real' = "seed"
                     /\ phi_imag' = phi_imag
                     /\ pc' = "seed_imag"
                ELSE /\ \E left \in LeftBy(phi_real) :
                           /\ phi_real' = ResetSeed(left, phi_imag).real
                           /\ phi_imag' = ResetSeed(left, phi_imag).imag
                     /\ pc' = "save_stage1"
    /\ UNCHANGED <<mesh_file, max_conductivity, valid_bc_ids, probe_raised,
                   bcs_real, bcs_imag, use_spatial_method, dm_fault,
                   epsilon_fn, sigma_fn, stage1_phi_real, stage1_phi_imag,
                   exc, files, ret, case_result,
                   clock_vars, assembly_vars, batch_vars, field_vars, out_vars>>

\* solve(simplified_a_imag == L_imag, phi_imag, ...) inside the try block
SeedSolveImag ==
    /\ pc = "seed_imag"
    /\ \E ok \in BOOLEAN :
          /\ attempts' = Append(attempts, Attempt("seed", "imag", "direct", ok))
          /\ IF ok
                THEN /\ phi_imag' = "seed"
                     /\ phi_real' = phi_real
                ELSE \E left \in LeftBy(phi_imag) :
                           /\ phi_real' = ResetSeed(phi_real, left).real
                           /\ phi_imag' = ResetSeed(phi_real, left).imag
    /\ pc' = "save_stage1"
    /\ UNCHANGED <<mesh_file, max_conductivity, valid_bc_ids, probe_raised,
                   bcs_real, bcs_imag, use_spatial_method, dm_fault,
                   epsilon_fn, sigma_fn, stage1_phi_real, stage1_phi_imag,
                   exc, files, ret, case_result,
                   clock_vars, assembly_vars, batch_vars, field_vars, out_vars>>

\* stage1_phi_real.assign(phi_real); stage1_phi_imag.assign(phi_imag)
SaveStage1 ==
    /\ pc = "save_stage1"
    /\ stage1_phi_real' = phi_real
    /\ stage1_phi_imag' = phi_imag
    /\ pc' = "full_real"
    /\ UNCHANGED <<mesh_file, max_conductivity, valid_bc_ids, probe_raised,
                   bcs_real, bcs_imag, use_spatial_method, dm_fault,
                   epsilon_fn, sigma_fn, phi_real, phi_imag, attempts, exc,
                   files, ret, case_result,
                   clock_vars, assembly_vars, batch_vars, field_vars, out_vars>>

\* where the run goes when a full-stage direct solve raises: the except
\* clause, which calls solve() again with backup_solver_parameters
AfterDirectFailure_Propagate(part) == "raised"
AfterDirectFailure(part) ==
    IF part = "real" THEN "full_real_backup" ELSE "full_imag_backup"

\* where the run goes when a full-stage solve has succeeded
AfterFullSolve_SkipsImag(part) == "gradient"
AfterFullSolve(part) == IF part = "real" THEN "full_imag" ELSE "gradient"

\* where the run goes when the backup solve raises inside the except
\* clause: nothing catches it in solve_tower_electric_field
AfterBackupFailure_Swallowed(part) == AfterFullSolve(part)
AfterBackupFailure(part) == "raised"

\* solve(a_real == L_real, phi_real, ..., solver_parameters)
FullSolveReal ==
    /\ pc = "full_real"
    /\ \E ok \in BOOLEAN :
          /\ attempts' = Append(attempts, Attempt("full", "real", "direct", ok))
          /\ IF ok
                THEN /\ phi_real' = "full"
                     /\ pc' = AfterFullSolve("real")
                ELSE /\ phi_real' \in LeftBy(phi_real)
                     /\ pc' = AfterDirectFailure("real")
    /\ UNCHANGED <<mesh_file, max_conductivity, valid_bc_ids, probe_raised,
                   bcs_real, bcs_imag, use_spatial_method, dm_fault,
                   epsilon_fn, sigma_fn, phi_imag, stage1_phi_real,
                   stage1_phi_imag, exc, files, ret, case_result,
                   clock_vars, assembly_vars, batch_vars, field_vars, out_vars>>

\* solve(a_real == L_real, phi_real, ..., backup_solver_parameters)
FullSolveRealBackup ==
    /\ pc = "full_real_backup"
    /\ \E ok \in BOOLEAN :
          /\ attempts' =
                Append(attempts, Attempt("full", "real", "iterative", ok))
          /\ IF ok
                THEN /\ phi_real' = "full"
                     /\ pc' = AfterFullSolve("real")
                     /\ exc' = exc
                ELSE /\ phi_real' \in LeftBy(phi_real)
                     /\ pc' = AfterBackupFailure("real")
                     /\ exc' = "SolveError"
    /\ UNCHANGED <<mesh_file, max_conductivity, valid_bc_ids, probe_raised,
                   bcs_real, bcs_imag, use_spatial_method, dm_fault,
                   epsilon_fn, sigma_fn, phi_imag, stage1_phi_real,
                   stage1_phi_imag, files, ret, case_result,
                   clock_vars, assembly_vars, batch_vars, field_vars, out_vars>>

\* solve(a_imag == L_imag, phi_imag, ..., solver_parameters)
FullSolveImag ==
    /\ pc = "full_imag"
    /\ \E ok \in BOOLEAN :
          /\ attempts' = Append(attempts, Attempt("full", "imag", "direct", ok))
          /\ IF ok
                THEN /\ phi_imag' = "full"
                     /\ pc' = AfterFullSolve("imag")
                ELSE /\ phi_imag' \in LeftBy(phi_imag)
                     /\ pc' = AfterDirectFailure("imag")
    /\ UNCHANGED <<mesh_file, max_conductivity, valid_bc_ids, probe_raised,
                   bcs_real, bcs_imag, use_spatial_method, dm_fault,
                   epsilon_fn, sigma_fn, phi_real, stage1_phi_real,
                   stage1_phi_imag, exc, files, ret, case_result,
                   clock_vars, assembly_vars, batch_vars, field_vars, out_vars>>

\* solve(a_imag == L_imag, phi_imag, ..., backup_solver_parameters)
FullSolveImagBackup ==
    /\ pc = "full_imag_backup"
    /\ \E ok \in BOOLEAN :
          /\ attempts' =
                Append(attempts, Attempt("full", "imag", "iterative", ok))
          /\ IF ok
                THEN /\ phi_imag' = "full"
                     /\ pc' = AfterFullSolve("imag")
                     /\ exc' = exc
                ELSE /\ phi_imag' \in LeftBy(phi_imag)
                     /\ pc' = AfterBackupFailure("imag")
                     /\ exc' = "SolveError"
    /\ UNCHANGED <<mesh_file, max_conductivity, valid_bc_ids, probe_raised,
                   bcs_real, bcs_imag, use_spatial_method, dm_fault,
                   epsilon_fn, sigma_fn, phi_real, stage1_phi_real,
                   stage1_phi_imag, files, ret, case_result,
                   clock_vars, assembly_vars, batch_vars, field_vars, out_vars>>

(***************************************************************************)
(* Post-processing: the field, its magnitude, the conductor diagnostic.    *)
(* The model does not solve the system: the values of a potential and of   *)
(* its gradient at the field nodes are those of a sample solution,         *)
(* phi_real = (x^2 + 2yz)/100 and phi_imag = xz/100, scaled by an          *)
(* amplitude that tells the potentials apart.                              *)
(***************************************************************************)
Amplitude(p) ==
    CASE p = "zero" -> 0
      [] p = "seed" -> 1
      [] p = "full" -> 2
      [] OTHER -> 3

\* phi.dat.data on the field space
PotentialData(p, part) ==
    [i \in FieldNodes |->
        LET x == field_coordinates[i]
        IN  IF part = "real"
               THEN Amplitude(p) * ((x[1] * x[1] + 2 * x[2] * x[3]) \div 100)
               ELSE Amplitude(p) * ((x[1] * x[3]) \div 100)]
\* grad(phi) at the field nodes
GradientData(p, part) ==
    [i \in FieldNodes |->
        LET x == field_coordinates[i]
            a == Amplitude(p)
        IN  IF part = "real"
               THEN <<a * (x[1] \div 50), a * (x[3] \div 50), a * (x[2] \div 50)>>
               ELSE <<a * (x[3] \div 100), 0, a * (x[1] \div 100)>>]

Negate(v) == <<0 - v[1], 0 - v[2], 0 - v[3]>>
\* x**2 + y**2 + z**2
SquaredNorm(v) == v[1] * v[1] + v[2] * v[2] + v[3] * v[3]

\* grad_phi.interpolate(-grad(phi)) for both parts, then the sum of the
\* squared components
ComputeGradient ==
    /\ pc = "gradient"
    /\ grad_phi_real' = [i \in FieldNodes |->
                            Negate(GradientData(phi_real, "real")[i])]
    /\ grad_phi_imag' = [i \in FieldNodes |->
                            Negate(GradientData(phi_imag, "imag")[i])]
    /\ E_squared' = [i \in FieldNodes |->
                        SquaredNorm(grad_phi_real'[i])
                        + SquaredNorm(grad_phi_imag'[i])]
    /\ pc' = "magnitude"
    /\ UNCHANGED <<mesh_file, max_conductivity, valid_bc_ids, probe_raised,
                   bcs_real, bcs_imag, use_spatial_method, dm_fault,
                   epsilon_fn, sigma_fn, phi_real, phi_imag, stage1_phi_real,
                   stage1_phi_imag, attempts, exc, files, ret, case_result,
                   clock_vars, assembly_vars, batch_vars, out_vars, E_mag, conductor_stats>>

\* what np.sqrt returns for a negative number
NaN == -1
\* np.sqrt, rounded down to a whole number
Sqrt(x) ==
    IF x < 0 THEN NaN
    ELSE CHOOSE r \in 0..x : r * r <= x /\ x < (r + 1) * (r + 1)

\* E_squared_data[E_squared_data < 0] = 0.0
Clamp_None(sq) == sq
Clamp(sq) == [i \in FieldNodes |-> IF sq[i] < 0 THEN 0 ELSE sq[i]]

\* the negative squared values are zeroed in place, then
\* E_mag.dat.data[:] = np.sqrt(E_squared_data)
ComputeFieldMagnitude ==
    /\ pc = "magnitude"
    /\ E_squared' = Clamp(E_squared)
    /\ E_mag' = [i \in FieldNodes |-> Sqrt(E_squared'[i])]
    /\ pc' = "diagnostic"
    /\ UNCHANGED <<mesh_file, max_conductivity, valid_bc_ids, probe_raised,
                   bcs_real, bcs_imag, use_spatial_method, dm_fault,
                   epsilon_fn, sigma_fn, phi_real, phi_imag, stage1_phi_real,
                   stage1_phi_imag, attempts, exc, files, ret, case_result,
                   clock_vars, assembly_vars, batch_vars, out_vars, grad_phi_real, grad_phi_imag,
                   conductor_stats>>

\* s > 1.0, for a conductivity s
Above1(s) == s.w > 1 \/ (s.w = 1 /\ s.p > 0)
\* indices of the entries of sigma_fn.dat.data above 1 S/m
conductor_cells(sig) == {d \in Dofs : Above1(sig[d])}
\* those of them that are indices of E_mag.dat.data
valid_conductor_cells(sig) ==
    {i \in conductor_cells(sig) : i < Cardinality(FieldNodes)}

RECURSIVE SumAt(_, _)
SumAt(f, S) ==
    IF S = {} THEN 0
    ELSE LET i == CHOOSE x \in S : TRUE IN f[i] + SumAt(f, S \ {i})
MaxAt(f, S) == CHOOSE m \in {f[i] : i \in S} : \A i \in S : f[i] <= m

\* np.mean (held as sum and count) and np.max of E_mag over the indices S
FieldStats(mag, S) ==
    [present |-> TRUE, sum |-> SumAt(mag, S), count |-> Cardinality(S),
     max |-> MaxAt(mag, S)]

\* "if len(conductor_cells) > 0: ... if valid_conductor_cells:"
ConductorDiagnostic ==
    /\ pc = "diagnostic"
    /\ conductor_stats' =
          IF valid_conductor_cells(sigma_fn) # {}
             THEN FieldStats(E_mag, valid_conductor_cells(sigma_fn))
             ELSE conductor_stats
    /\ pc' = "export"
    /\ UNCHANGED <<mesh_file, max_conductivity, valid_bc_ids, probe_raised,
                   bcs_real, bcs_imag, use_spatial_method, dm_fault,
                   epsilon_fn, sigma_fn, phi_real, phi_imag, stage1_phi_real,
                   stage1_phi_imag, attempts, exc, files, ret, case_result,
                   clock_vars, assembly_vars, batch_vars, out_vars, grad_phi_real, grad_phi_imag,
                   E_squared, E_mag>>

(***************************************************************************)
(* Export, statistics, return.                                             *)
(***************************************************************************)
\* the potential the export projects onto the field space: phi, not the
\* saved seed-stage copy stage1
ExportSource_Stage1(phi, stage1) == stage1
ExportSource(phi, stage1) == phi

\* f"{output_dir}/{npz_filename}_{timestamp}.npz": for a fixed directory
\* and stem, the path is the timestamp read when the run started
npz_file == strftime(start_time)

\* buffer = 0.01, in hundredths
BufferPercent == 1
\* (x_max - x_min) * buffer on axis k, in hundredths of a coordinate unit
AxisBuffer(k) == (AxisMax(k) - AxisMin(k)) * BufferPercent
\* box_mask: the node lies in the bounding box shrunk by the buffer
box_mask_NoBuffer(i) ==
    \A k \in 1..3 :
        /\ field_coordinates[i][k] >= AxisMin(k)
        /\ field_coordinates[i][k] <= AxisMax(k)
box_mask(i) ==
    \A k \in 1..3 :
        /\ 100 * field_coordinates[i][k] >= 100 * AxisMin(k) + AxisBuffer(k)
        /\ 100 * field_coordinates[i][k] <= 100 * AxisMax(k) - AxisBuffer(k)

\* the value at field node i of the DG1 function f restricted to cell c
\* (f is linear on the cell)
LocalValue(f, c, i) ==
    (f[c * DofsPerCell + (NodeEnds[i][1] - c)]
     + f[c * DofsPerCell + (NodeEnds[i][2] - c)]) \div 2
RECURSIVE SumLocal(_, _, _)
SumLocal(f, C, i) ==
    IF C = {} THEN 0
    ELSE LET c == CHOOSE x \in C : TRUE
         IN  LocalValue(f, c, i) + SumLocal(f, C \ {c}, i)
\* field.project(f) for a DG1 function f: at a node, the mean of what f is
\* there in the cells around it (rounded down)
ProjectToField(f) ==
    [i \in FieldNodes |->
        SumLocal(f, NodeCells(i), i) \div Cardinality(NodeCells(i))] @@ <<>>
\* epsilon_field.project(epsilon_fn) and sigma_field.project(sigma_fn)
epsilon_data(eps) == ProjectToField(eps)
CondField(w, p) == [i \in FieldNodes |-> Cond(w[i], p[i])] @@ <<>>
sigma_data(sig) ==
    CondField(ProjectToField([d \in Dofs |-> sig[d].w]),
              ProjectToField([d \in Dofs |-> sig[d].p]))

\* 1e-8 S/m, in pS/m
AirThreshold == 10000
\* air_mask = (sigma_data < 1e-8)
air_mask_All(sd, i) == TRUE
air_mask(sd, i) == sd[i].w = 0 /\ sd[i].p < AirThreshold

\* the indices at which a boolean mask is true, ascending
NodeSeq == [r \in 1..Cardinality(FieldNodes) |-> r - 1]
Rows(S) == LET Selected(i) == i \in S IN SelectSeq(NodeSeq, Selected)
\* data[mask]
Take(data, rows) == [r \in 1..Len(rows) |-> data[rows[r]]]

box_rows == Rows({i \in FieldNodes : box_mask(i)})
\* combined_mask = box_mask & air_mask
combined_rows(sd) ==
    Rows({i \in FieldNodes : box_mask(i) /\ air_mask(sd, i)})

\* box_sigma = sigma_data[combined_mask]
box_sigma_BoxOnly(sd) == Take(sd, box_rows)
box_sigma(sd) == Take(sd, combined_rows(sd))

\* len(box_coordinates) / len(field_coordinates) * 100, as a fraction
Percentage_Fraction(n, total) == [num |-> n, den |-> total]
Percentage(n, total) == [num |-> n * 100, den |-> total]

\* metadata['box_filter_info']
FilterInfo(total, box, kept) ==
    [total_points |-> total, box_points |-> box, box_air_points |-> kept,
     percentage |-> Percentage(kept, total)]
box_filter_info(sd) ==
    FilterInfo(Cardinality(FieldNodes), Len(box_rows), Len(combined_rows(sd)))

\* "if 'mean_conductor_field' in locals(): metadata['conductor_stats'] = ..."
\* the entry is there when the diagnostic assigned its two locals
MetadataStats_Always(stats) == [stats EXCEPT !.present = TRUE]
MetadataStats(stats) == stats

\* what np.savez writes: the filtered arrays and the metadata.  re and im
\* are the potentials the export projects onto the field space, sd and ed
\* the projected conductivity and permittivity, rows the nodes kept.
SavedArrays(re, im, sd, ed, rows) ==
    [phi_real |-> re, phi_imag |-> im, path |-> npz_file,
     box_coordinates |-> Take(field_coordinates, rows),
     box_phi_real |-> Take(PotentialData(re, "real"), rows),
     box_phi_imag |-> Take(PotentialData(im, "imag"), rows),
     box_E_real |-> Take(grad_phi_real, rows),
     box_E_imag |-> Take(grad_phi_imag, rows),
     box_E_mag |-> Take(E_mag, rows),
     box_epsilon |-> Take(ed, rows),
     box_sigma |-> box_sigma(sd),
     box_filter_info |-> box_filter_info(sd),
     conductor_stats |-> MetadataStats(conductor_stats)]
FilteredArrays(re, im, sd, ed) ==
    SavedArrays(re, im, sd, ed, combined_rows(sd))
Dataset(re, im) ==
    FilteredArrays(re, im, sigma_data(sigma_fn), epsilon_data(epsilon_fn))

\* where the run goes when a step of the export raised: the except clause
\* prints the error and the function carries on
AfterExportFailure_Propagate == "raised"
AfterExportFailure == "stats"

\* the try block around np.savez: either the file is written, or some
\* step raises and the except clause prints the error
ExportDataset ==
    /\ pc = "export"
    /\ \/ /\ files' = files \cup
                {Dataset(ExportSource(phi_real, stage1_phi_real),
                         ExportSource(phi_imag, stage1_phi_imag))}
          /\ disk' = {f \in disk : f.path # npz_file}
                     \cup {File(npz_file, "this")}
          /\ export_error' = export_error
          /\ pc' = "stats"
       \/ /\ files' = files
          /\ disk' = disk
          /\ export_error' = "Exception"
          /\ pc' = AfterExportFailure
    /\ exc' = IF pc' = "raised" THEN "Exception" ELSE exc
    /\ UNCHANGED <<mesh_file, max_conductivity, valid_bc_ids, probe_raised,
                   bcs_real, bcs_imag, use_spatial_method, dm_fault,
                   epsilon_fn, sigma_fn, phi_real, phi_imag, stage1_phi_real,
                   stage1_phi_imag, attempts, ret, case_result,
                   clock_vars, assembly_vars, batch_vars, field_vars>>

\* the closing statistics, then "return True"
ReportStatistics ==
    /\ pc = "stats"
    /\ ret' = "True"
    /\ pc' = "solver_returned"
    /\ UNCHANGED <<mesh_file, max_conductivity, valid_bc_ids, probe_raised,
                   bcs_real, bcs_imag, use_spatial_method, dm_fault,
                   epsilon_fn, sigma_fn, phi_real, phi_imag, stage1_phi_real,
                   stage1_phi_imag, attempts, exc, files, case_result,
                   clock_vars, assembly_vars, batch_vars, field_vars, out_vars>>

\* run_single_case: the tuple built from the solver's return value, or
\* from the exception it let through
CaseResult(raised, r, e) ==
    IF raised THEN [done |-> TRUE, success |-> FALSE, cause |-> e]
    ELSE IF r = "True" THEN [done |-> TRUE, success |-> TRUE, cause |-> "None"]
    ELSE [done |-> TRUE, success |-> FALSE, cause |-> "solver returned failure"]

RunSingleCaseReturn ==
    /\ pc \in {"solver_returned", "raised"}
    /\ case_result' = CaseResult(pc = "raised", ret, exc)
    /\ pc' = "case_done"
    /\ UNCHANGED <<mesh_file, max_conductivity, valid_bc_ids, probe_raised,
                   bcs_real, bcs_imag, use_spatial_method, dm_fault,
                   epsilon_fn, sigma_fn, phi_real, phi_imag, stage1_phi_real,
                   stage1_phi_imag, attempts, exc, files, ret,
                   clock_vars, assembly_vars, batch_vars, field_vars, out_vars>>

Next ==
    \/ Start
    \/ LoadMesh
    \/ ProbeBoundaryIds
    \/ BuildDirichletBCs
    \/ ClassifyTopological
    \/ ClassifyGeometric
    \/ AssembleEquations
    \/ SeedSolveReal
    \/ SeedSolveImag
    \/ SaveStage1
    \/ FullSolveReal
    \/ FullSolveRealBackup
    \/ FullSolveImag
    \/ FullSolveImagBackup
    \/ ComputeGradient
    \/ ComputeFieldMagnitude
    \/ ConductorDiagnostic
    \/ ExportDataset
    \/ ReportStatistics
    \/ RunSingleCaseReturn

Spec == Init /\ [][Next]_vars

(***************************************************************************)
(* The batch of examples/batch_analysis.py: run_parallel and run_serial.   *)
(* A scenario's run is taken by what run_single_case returns, by whether   *)
(* it wrote its file, and by how long it executes.                         *)
(***************************************************************************)
\* number of entries of the dictionary cases
NumScenarios == 2
\* the keys of cases, in the order of the dictionary
CaseNames ==
    <<"low_conductivity", "medium_conductivity", "high_conductivity",
      "weak_boundary", "strong_boundary", "extreme_case">>
Scenarios == 1..NumScenarios

\* future.result(timeout=3600), in ticks of 1800 s
Timeout == 2
\* the clock of the model stops here: every wait has expired by then
Horizon == NumScenarios * Timeout + 1
\* max_workers = min(multiprocessing.cpu_count(), 3)
PoolSizes == {Min(cpu_count, 3) : cpu_count \in 1..NumScenarios}

\* the exceptions a run lets through to run_single_case
RunExceptions == {"BoundaryError", "SolveError"}
\* what run_single_case returns: success, "solver returned failure", or
\* the text of the exception
RunResults ==
    {CaseResult(FALSE, "True", "none"), CaseResult(FALSE, "False", "none")}
    \cup {CaseResult(TRUE, "none", e) : e \in RunExceptions}

\* executor.submit(run_single_case, (case_name, params))
Submitted(s, hangs) ==
    [name |-> CaseNames[s], state |-> "queued", worked |-> 0,
     hangs |-> hangs, result |-> NoResult, wrote |-> FALSE]

InitBatch ==
    /\ InitRun
    /\ mesh_file = NominalMesh
    /\ max_conductivity = 35000
    /\ earlier_runs = {}
    /\ batch_mode \in {"parallel", "serial"}
    /\ max_workers \in PoolSizes
    /\ batch_mode = "serial" => max_workers = 1
    /\ now = 0
    /\ \E h \in [Scenarios -> BOOLEAN] :
          futures = [s \in Scenarios |-> Submitted(s, h[s])]
    /\ awaited = 1
    /\ wait_since = 0
    /\ results = <<>>
    /\ batch_pc = "collect"

Running == {s \in Scenarios : futures[s].state = "running"}

\* the pool hands the queued scenarios to free workers, in the order of
\* submission
CanBegin(s) ==
    /\ batch_mode = "parallel"
    /\ futures[s].state = "queued"
    /\ \A t \in 1..(s - 1) : futures[t].state # "queued"
    /\ Cardinality(Running) < max_workers

WorkerBegin(s) ==
    /\ CanBegin(s)
    /\ futures' = [futures EXCEPT ![s].state = "running"]
    /\ UNCHANGED <<batch_mode, max_workers, now, awaited, wait_since,
                   results, batch_pc, run_vars>>

\* run_single_case returns in its worker; the file, if any, is on disk
WorkerFinish(s) ==
    /\ batch_mode = "parallel"
    /\ futures[s].state = "running"
    /\ ~futures[s].hangs
    /\ \E r \in RunResults, w \in BOOLEAN :
          /\ w => r.success
          /\ futures' = [futures EXCEPT ![s].state = "done",
                                        ![s].result = r, ![s].wrote = w]
    /\ UNCHANGED <<batch_mode, max_workers, now, awaited, wait_since,
                   results, batch_pc, run_vars>>

\* str(e) for the TimeoutError that future.result raises: it is raised
\* without arguments
StrTimeoutError == ""
\* the tuple appended to results
Outcome(name, r) == [name |-> name, success |-> r.success, cause |-> r.cause]
TimedOutEntry(name) ==
    [name |-> name, success |-> FALSE, cause |-> StrTimeoutError]

\* the timeout of the pending future.result() has run out
WaitExpired == now - wait_since >= Timeout
\* future.result(timeout=3600) returns or raises
CanCollect ==
    /\ batch_mode = "parallel"
    /\ batch_pc = "collect"
    /\ futures[awaited].state = "done" \/ WaitExpired

\* one turn of "for future in future_to_case"
CollectResult ==
    /\ CanCollect
    /\ results' =
          Append(results,
                 IF futures[awaited].state = "done"
                    THEN Outcome(futures[awaited].name,
                                 futures[awaited].result)
                    ELSE TimedOutEntry(futures[awaited].name))
    /\ awaited' = IF awaited = NumScenarios THEN awaited ELSE awaited + 1
    /\ wait_since' = now
    /\ batch_pc' = IF awaited = NumScenarios THEN "shutdown" ELSE "collect"
    /\ UNCHANGED <<batch_mode, max_workers, now, futures, run_vars>>

\* leaving the with block: executor.shutdown(wait=True) returns once every
\* submitted call has returned
PoolDrained == \A s \in Scenarios : futures[s].state = "done"
ShutdownPool ==
    /\ batch_mode = "parallel"
    /\ batch_pc = "shutdown"
    /\ PoolDrained
    /\ batch_pc' = "summary"
    /\ UNCHANGED <<batch_mode, max_workers, now, futures, awaited,
                   wait_since, results, run_vars>>

\* run_serial calls run_single_case for the next scenario
CanCall ==
    /\ batch_mode = "serial"
    /\ batch_pc = "collect"
    /\ futures[awaited].state = "queued"
SerialCall ==
    /\ CanCall
    /\ futures' = [futures EXCEPT ![awaited].state = "running"]
    /\ UNCHANGED <<batch_mode, max_workers, now, awaited, wait_since,
                   results, batch_pc, run_vars>>

\* the call returns and its tuple is appended
SerialReturn ==
    /\ batch_mode = "serial"
    /\ batch_pc = "collect"
    /\ futures[awaited].state = "running"
    /\ ~futures[awaited].hangs
    /\ \E r \in RunResults, w \in BOOLEAN :
          /\ w => r.success
          /\ futures' = [futures EXCEPT ![awaited].state = "done",
                                        ![awaited].result = r,
                                        ![awaited].wrote = w]
          /\ results' = Append(results, Outcome(futures[awaited].name, r))
    /\ awaited' = IF awaited = NumScenarios THEN awaited ELSE awaited + 1
    /\ batch_pc' = IF awaited = NumScenarios THEN "summary" ELSE "collect"
    /\ UNCHANGED <<batch_mode, max_workers, now, wait_since, run_vars>>

\* print_batch_summary(results), then the function returns
PrintSummary ==
    /\ batch_pc = "summary"
    /\ batch_pc' = "returned"
    /\ UNCHANGED <<batch_mode, max_workers, now, futures, awaited,
                   wait_since, results, run_vars>>

\* a step that takes no time is ready
Ready ==
    \/ CanCollect
    \/ CanCall
    \/ \E s \in Scenarios : CanBegin(s)
    \/ batch_pc = "shutdown" /\ PoolDrained
    \/ batch_pc \in {"summary", "returned"}

\* time passes: every executing scenario has executed one tick longer
Tick ==
    /\ ~Ready
    /\ now < Horizon
    /\ now' = now + 1
    /\ futures' = [s \in Scenarios |->
                     IF futures[s].state = "running"
                        THEN [futures[s] EXCEPT !.worked = @ + 1]
                        ELSE futures[s]]
    /\ UNCHANGED <<batch_mode, max_workers, awaited, wait_since, results,
                   batch_pc, run_vars>>

NextBatch ==
    \/ \E s \in Scenarios : WorkerBegin(s)
    \/ \E s \in Scenarios : WorkerFinish(s)
    \/ CollectResult
    \/ ShutdownPool
    \/ SerialCall
    \/ SerialReturn
    \/ PrintSummary
    \/ Tick

SpecBatch == InitBatch /\ [][NextBatch]_vars

\* the processes keep running: a step that can be taken is taken
SpecBatchLive == SpecBatch /\ WF_vars(NextBatch)

(***************************************************************************)
(* Properties of the two-stage solve.                                      *)
(***************************************************************************)
Idx == 1..Len(attempts)
IsAttempt(i, stage, part, method) ==
    /\ attempts[i].stage = stage
    /\ attempts[i].part = part
    /\ attempts[i].method = method
SeedFailed == \E i \in Idx : attempts[i].stage = "seed" /\ ~attempts[i].ok

\* C1: if either seed-stage solve raises, both potentials are reset to the
\* zero field, the run goes on and the full-stage solves are still
\* attempted; at entry to the full stage the potentials are (seed, seed) or
\* (zero, zero), never a mix.
C1_SeedFailureZeroesBoth ==
    /\ pc \in {"save_stage1", "full_real"} =>
          /\ exc = "none"
          /\ IF SeedFailed
                THEN phi_real = "zero" /\ phi_imag = "zero"
                ELSE phi_real = "seed" /\ phi_imag = "seed"
    /\ pc = "full_real" =>
          /\ stage1_phi_real = phi_real
          /\ stage1_phi_imag = phi_imag
    /\ (SeedFailed /\ pc \notin {"save_stage1", "full_real"}) =>
          \E i \in Idx : IsAttempt(i, "full", "real", "direct")

\* the real seed solve succeeded, the imaginary one raised, and the full
\* stage is entered from the zero field
C1_Witness ==
    /\ pc = "full_real"
    /\ Len(attempts) = 2
    /\ attempts[1].ok
    /\ ~attempts[2].ok
    /\ phi_real = "zero"
    /\ phi_imag = "zero"

\* a failed direct attempt i is followed by the iterative attempt on the
\* same system, or that attempt is the run's next step
RetriedIteratively(i) ==
    IF i < Len(attempts)
       THEN /\ IsAttempt(i + 1, attempts[i].stage, attempts[i].part, "iterative")
       ELSE /\ attempts[i].stage = "full"
            /\ pc = AfterDirectFailure(attempts[i].part)

\* an iterative attempt comes right after the failed direct attempt on the
\* same system
DirectCameFirst(i) ==
    /\ i > 1
    /\ IsAttempt(i - 1, attempts[i].stage, attempts[i].part, "direct")
    /\ ~attempts[i - 1].ok

\* C2 as claimed: each of the four solves tries the direct solver first
\* and, if that raises, retries the same system with the iterative solver
\* before the failure is handled in any other way.
C2_EverySolveFallsBack ==
    \A i \in Idx :
        /\ (attempts[i].method = "direct" /\ ~attempts[i].ok)
              => RetriedIteratively(i)
        /\ attempts[i].method = "iterative" => DirectCameFirst(i)

\* C2 as amended: the two full-stage solves try the direct solver first
\* and retry the same system with the iterative solver if it raises; a
\* seed-stage solve is tried with the direct solver only, and its failure
\* is handled by the zero reset, not by a retry.
C2_FullStageFallsBack ==
    \A i \in Idx :
        /\ (attempts[i].stage = "full" /\ attempts[i].method = "direct"
              /\ ~attempts[i].ok) => RetriedIteratively(i)
        /\ attempts[i].method = "iterative" =>
              (attempts[i].stage = "full" /\ DirectCameFirst(i))
        /\ (attempts[i].stage = "seed" /\ ~attempts[i].ok) =>
              /\ attempts[i].method = "direct"
              /\ i < Len(attempts) => IsAttempt(i + 1, "full", "real", "direct")

\* the full-stage real direct solve raised and the iterative retry of the
\* same system succeeded
C2_Witness ==
    \E i \in Idx :
        /\ i < Len(attempts)
        /\ IsAttempt(i, "full", "real", "direct")
        /\ ~attempts[i].ok
        /\ IsAttempt(i + 1, "full", "real", "iterative")
        /\ attempts[i + 1].ok

\* C3: when a full-stage iterative fallback fails too, the error leaves
\* solve_tower_electric_field: that was the only iterative attempt for the
\* component, no later solve or stage runs, no dataset file is written, and
\* run_single_case reports failure with the error text as cause.
C3_BackupFailureIsFatal ==
    \A i \in Idx :
        (attempts[i].stage = "full" /\ attempts[i].method = "iterative"
           /\ ~attempts[i].ok) =>
            /\ i = Len(attempts)
            /\ Cardinality({j \in Idx :
                   IsAttempt(j, "full", attempts[i].part, "iterative")}) = 1
            /\ attempts[i].part = "real" =>
                   ~\E j \in Idx : attempts[j].part = "imag"
                                     /\ attempts[j].stage = "full"
            /\ pc \in {"raised", "case_done"}
            /\ exc = "SolveError"
            /\ ret = "none"
            /\ files = {}
            /\ case_result.done =>
                   (~case_result.success /\ case_result.cause = exc)

\* the real full-stage solve failed twice and the scenario was reported
C3_Witness ==
    /\ case_result.done
    /\ case_result.cause = "SolveError"
    /\ Len(attempts) > 0
    /\ IsAttempt(Len(attempts), "full", "real", "iterative")

Rank(a) ==
    CASE a.stage = "seed" /\ a.part = "real" -> 1
      [] a.stage = "seed" /\ a.part = "imag" -> 2
      [] a.stage = "full" /\ a.part = "real" -> 3
      [] a.stage = "full" /\ a.part = "imag" -> 4

\* the solves come in the order seed real, seed imaginary, full real, full
\* imaginary; a system is solved again only as the retry of a failure
SolvesInOrder ==
    \A i, j \in Idx :
        i < j => /\ Rank(attempts[i]) <= Rank(attempts[j])
                 /\ Rank(attempts[i]) = Rank(attempts[j]) =>
                        (j = i + 1 /\ ~attempts[i].ok)

\* past the solver only with both full-stage solves returned, and no solve
\* after the full-stage imaginary solve has returned
ConvergedIsTerminal ==
    /\ pc \in {"gradient", "magnitude", "diagnostic", "export", "stats",
              "solver_returned"} /\ ret # "False" =>
          /\ Len(attempts) > 0
          /\ attempts[Len(attempts)].ok
          /\ Rank(attempts[Len(attempts)]) = 4
          /\ \E i \in Idx : Rank(attempts[i]) = 3 /\ attempts[i].ok
    /\ \A i \in Idx :
          (Rank(attempts[i]) = 4 /\ attempts[i].ok) => i = Len(attempts)
    /\ \A i \in Idx :
          Rank(attempts[i]) = 4 =>
              \E j \in 1..(i - 1) : Rank(attempts[j]) = 3 /\ attempts[j].ok

\* C4 as claimed: Unsolved -> Seeded -> Converged, never backwards; both
\* seed-stage solves are attempted before any full-stage solve, the
\* full-stage real solve precedes the imaginary one, Converged is terminal.
C4_BothSeedsBeforeFull ==
    /\ SolvesInOrder
    /\ ConvergedIsTerminal
    /\ \A i \in Idx :
          attempts[i].stage = "full" =>
              /\ \E j \in 1..(i - 1) : Rank(attempts[j]) = 1
              /\ \E j \in 1..(i - 1) : Rank(attempts[j]) = 2

\* C4 as amended: the same, except that the imaginary seed-stage solve is
\* attempted exactly when the real seed-stage solve has succeeded: a real
\* seed-stage failure skips it.
C4_SeedStageBeforeFull ==
    /\ SolvesInOrder
    /\ ConvergedIsTerminal
    /\ \A i \in Idx :
          attempts[i].stage = "full" =>
              /\ Rank(attempts[1]) = 1
              /\ (\E j \in 1..(i - 1) : Rank(attempts[j]) = 2) <=> attempts[1].ok

\* the real seed-stage solve raised and the run went on to converge
C4_Witness ==
    /\ pc = "export"
    /\ ~attempts[1].ok
    /\ Rank(attempts[2]) = 3

\* C5: a dataset file holds the potentials the full-stage solves left,
\* both of which have succeeded; it never holds the saved seed-stage copies.
C5_ExportsFullStage ==
    \A f \in files :
        /\ f.phi_real = "full"
        /\ f.phi_imag = "full"
        /\ f.phi_real = phi_real
        /\ f.phi_imag = phi_imag
        /\ \E i \in Idx : Rank(attempts[i]) = 3 /\ attempts[i].ok
        /\ \E i \in Idx : Rank(attempts[i]) = 4 /\ attempts[i].ok

\* a file was written while the saved seed-stage copies hold a seed result
C5_Witness ==
    /\ files # {}
    /\ stage1_phi_real = "seed"
    /\ stage1_phi_imag = "seed"
(***************************************************************************)
(* Properties of the boundary constraints.                                 *)
(***************************************************************************)
\* the Dirichlet lists have been built
BcsBuilt ==
    pc \in {"materials", "geometric", "assemble", "seed_real", "seed_imag", "save_stage1",
            "full_real", "full_real_backup", "full_imag", "full_imag_backup",
            "gradient", "magnitude", "diagnostic", "export", "stats"}

\* the entries of a constraint list on boundary identifier id
EntriesOn(bcs, id) == {k \in 1..Len(bcs) : bcs[k].sub_domain = id}

\* C6: a conductor whose identifier the probe found invalid (no node, or
\* the probe raised) gets no constraint in either list and the run goes
\* on; a conductor whose identifier is valid gets exactly one in each.
C6_InvalidIdsOmitted ==
    /\ BcsBuilt =>
          \A n \in ConductorNames :
              LET id == valid_boundaries(n)
                  want == IF id \in valid_bc_ids THEN 1 ELSE 0
              IN  /\ Cardinality(EntriesOn(bcs_real, id)) = want
                  /\ Cardinality(EntriesOn(bcs_imag, id)) = want
    /\ exc # "BoundaryError"

\* the upper and the lower conductor of each phase, with the phase angle
PhasePairs == {<<"PhaseA", "Phasea", 0>>, <<"PhaseB", "Phaseb", 120>>,
               <<"PhaseC", "Phasec", 240>>}

\* the value list bcs holds for conductor n, if it holds exactly one
ValueOn(bcs, n) ==
    bcs[CHOOSE k \in 1..Len(bcs) : bcs[k].sub_domain = valid_boundaries(n)].g

\* C7: the two Dirichlet lists are built in lock-step (k-th entries on the
\* same identifier, hence the same conductor); the tower gets (0, 0); the
\* upper and the lower conductor of a phase get the same pair of values,
\* V*cos(theta) and V*sin(theta) with V = 120e3 and theta = 0, 120, 240
\* degrees.
C7_LockStepPhasors ==
    BcsBuilt =>
        /\ Len(bcs_real) = Len(bcs_imag)
        /\ \A k \in 1..Len(bcs_real) :
              /\ bcs_real[k].sub_domain = bcs_imag[k].sub_domain
              /\ bcs_real[k].V = "V_real"
              /\ bcs_imag[k].V = "V_imag"
        /\ \A n \in ConductorNames :
              /\ Cardinality(EntriesOn(bcs_real, valid_boundaries(n))) = 1
              /\ Cardinality(EntriesOn(bcs_imag, valid_boundaries(n))) = 1
        /\ ValueOn(bcs_real, "Tower") = 0
        /\ ValueOn(bcs_imag, "Tower") = 0
        /\ \A pr \in PhasePairs :
              /\ ValueOn(bcs_real, pr[1]) = ValueOn(bcs_real, pr[2])
              /\ ValueOn(bcs_imag, pr[1]) = ValueOn(bcs_imag, pr[2])
              /\ ValueOn(bcs_real, pr[1]) = 120000 * CosMilli(pr[3])
              /\ ValueOn(bcs_imag, pr[1]) = 120000 * SinMilli(pr[3])

\* both lists hold the seven conductors, phase B at a non-zero angle
C7_Witness ==
    /\ pc = "materials"
    /\ Len(bcs_real) = 7
    /\ ValueOn(bcs_real, "Phaseb") = -60000000
    /\ ValueOn(bcs_imag, "Phaseb") = 103920000

(***************************************************************************)
(* Properties of the material fields.                                      *)
(***************************************************************************)
\* the material fields are final
MaterialsSet ==
    pc \in {"assemble", "seed_real", "seed_imag", "save_stage1", "full_real",
            "full_real_backup", "full_imag", "full_imag_backup", "gradient",
            "magnitude", "diagnostic", "export", "stats"}

\* node d holds the (epsilon, sigma) of material id
HoldsMaterial(d, id) ==
    /\ epsilon_fn[d] = epsilon_r(id)
    /\ sigma_fn[d] = sigma(id, max_conductivity)

\* both fields are what the geometric strategy computes for this mesh
GeometricMap ==
    \A d \in Dofs :
        /\ epsilon_fn[d] = epsilon_expression(mesh_file.region_masks[CellOfDof(d)])
        /\ sigma_fn[d] = sigma_expression(mesh_file.region_masks[CellOfDof(d)],
                                          max_conductivity)

\* C8: under the topological strategy every node of every cell of a
\* stratum whose value is a material identifier holds exactly that
\* material's (epsilon, sigma), and every node of every other cell holds
\* the air pair.
C8_TopologicalExact ==
    (MaterialsSet /\ ~use_spatial_method /\ dm_fault = "none") =>
        \A c \in Cells : \A d \in DofsOfCell(c) :
            IF mesh_file.cell_label[c] \in MaterialIds
               THEN HoldsMaterial(d, mesh_file.cell_label[c])
               ELSE HoldsMaterial(d, 1)

\* C9: any failure while reading or applying the labels, a single cell's
\* included, is caught and makes the geometric strategy produce the whole
\* material map; none aborts the run or leaves a topological map.
C9_AnyLabelFailureFallsBack ==
    /\ (MaterialsSet /\ dm_fault # "none") =>
          (use_spatial_method /\ GeometricMap)
    /\ dm_fault # "none" => pc # "raised" \/ attempts # <<>>

\* C10: without usable labels ("Cell Sets" absent, or none of its strata a
\* material identifier 1..9) the geometric strategy produces the map; it
\* is not left all air.
C10_NoUsableLabelsFallsBack ==
    (MaterialsSet /\ (~mesh_file.has_cell_sets \/ Strata \cap MaterialIds = {}))
        => (use_spatial_method /\ GeometricMap)

(***************************************************************************)
(* The geometric strategy and the entry check.                             *)
(***************************************************************************)
\* the smallest permittivity of a non-air region
MinRegionEpsilon ==
    CHOOSE e \in {epsilon_r(r) : r \in RegionIds} :
        \A r \in RegionIds : e <= epsilon_r(r)

\* the geometric strategy has produced the material fields
GeometricDone == MaterialsSet /\ use_spatial_method

NothingDone ==
    /\ valid_bc_ids = {} /\ probe_raised = {}
    /\ bcs_real = <<>> /\ bcs_imag = <<>>
    /\ epsilon_fn = ZeroEpsilon /\ sigma_fn = ZeroSigma
    /\ attempts = <<>>
    /\ E_mag = NoField
    /\ files = {}
    /\ \A f \in disk : f.writer # "this"

\* C12: when the mesh file does not exist, the run returns failure before
\* building any function space, boundary condition or material field and
\* before any solve, and writes no dataset file.
C12_MissingMeshFailsEarly ==
    ~mesh_file.exists =>
        /\ NothingDone
        /\ pc \in {"start", "solver_returned", "case_done"}
        /\ pc # "start" => ret = "False"
        /\ exc = "none"
        /\ case_result.done =>
               (~case_result.success
                  /\ case_result.cause = "solver returned failure")

\* the run on a missing mesh file was reported as a failed scenario
C12_Witness ==
    /\ ~mesh_file.exists
    /\ pc = "case_done"
    /\ ret = "False"
    /\ ~case_result.success

LowerBound(k) == 100 * AxisMin(k) + (AxisMax(k) - AxisMin(k))
UpperBound(k) == 100 * AxisMax(k) - (AxisMax(k) - AxisMin(k))
InClosedBox(x) ==
    \A k \in 1..3 : 100 * x[k] >= LowerBound(k) /\ 100 * x[k] <= UpperBound(k)
InOpenBox(x) ==
    \A k \in 1..3 : 100 * x[k] > LowerBound(k) /\ 100 * x[k] < UpperBound(k)
OnBoxFace(x) == InClosedBox(x) /\ ~InOpenBox(x)
\* the rows of an exported array, as a set
RowSet(a) == {a[r] : r \in 1..Len(a)}
\* sigma_data < 1e-8, with 1e-8 S/m written in pS/m
BelowAirThreshold(sg) == sg.w = 0 /\ sg.p < 10000

\* C14 as stated: every exported point lies strictly inside
\* [min+margin, max-margin] on each axis; a point with a coordinate equal
\* to min+margin or max-margin is not exported.
C14_StrictlyInsideBox ==
    \A f \in files : \A x \in RowSet(f.box_coordinates) : InOpenBox(x)

\* C14, amended: every exported point lies in the closed interval
\* [min+margin, max-margin] on each axis, and a non-conductive point with
\* a coordinate equal to min+margin or max-margin is exported.
ClosedBoxRows(f, sd) ==
    /\ \A x \in RowSet(f.box_coordinates) : InClosedBox(x)
    /\ \A i \in FieldNodes :
          (OnBoxFace(field_coordinates[i]) /\ BelowAirThreshold(sd[i]))
              => field_coordinates[i] \in RowSet(f.box_coordinates)
C14_InsideClosedBox ==
    \A f \in files : ClosedBoxRows(f, sigma_data(sigma_fn))

\* a file holds a point that lies exactly at min+margin on one axis, and
\* the mesh has a point outside the shrunk box
C14_Witness ==
    \E f \in files :
        /\ \E x \in RowSet(f.box_coordinates) : OnBoxFace(x)
        /\ \E i \in FieldNodes : ~InClosedBox(field_coordinates[i])

\* C15: a point is exported exactly when it passes the bounding-box
\* filter and its conductivity, on the field space, is strictly below
\* 1e-8 S/m; no exported point has a conductivity of 1e-8 S/m or more.
BoxAndAirRows(f, sd) ==
    /\ RowSet(f.box_coordinates) =
          {field_coordinates[i] : i \in
              {j \in FieldNodes : /\ InClosedBox(field_coordinates[j])
                                  /\ BelowAirThreshold(sd[j])}}
    /\ \A sg \in RowSet(f.box_sigma) : BelowAirThreshold(sg)
C15_ExportedIffBoxAndAir ==
    \A f \in files : BoxAndAirRows(f, sigma_data(sigma_fn))

\* a file was written that keeps some point of the shrunk box and leaves
\* out another because it is conductive
ConductiveNodeLeftOut(f, sd) ==
    /\ Len(f.box_coordinates) > 0
    /\ \E i \in FieldNodes :
          /\ InClosedBox(field_coordinates[i])
          /\ ~BelowAirThreshold(sd[i])
          /\ field_coordinates[i] \notin RowSet(f.box_coordinates)
C15_Witness ==
    \E f \in files : ConductiveNodeLeftOut(f, sigma_data(sigma_fn))

\* C16: in the filter statistics of the metadata,
\* box_air_points <= box_points <= total_points, box_air_points is the
\* number of exported points, and percentage is
\* box_air_points / total_points * 100.
C16_FilterStatistics ==
    \A f \in files :
        LET info == f.box_filter_info
        IN  /\ info.box_air_points <= info.box_points
            /\ info.box_points <= info.total_points
            /\ info.total_points = Cardinality(FieldNodes)
            /\ info.box_points =
                  Cardinality({i \in FieldNodes :
                                   InClosedBox(field_coordinates[i])})
            /\ info.box_air_points = Len(f.box_coordinates)
            /\ info.percentage.den > 0
            /\ info.percentage.num * info.total_points =
                  info.box_air_points * 100 * info.percentage.den

\* a file whose three counts differ
C16_Witness ==
    \E f \in files :
        /\ 0 < f.box_filter_info.box_air_points
        /\ f.box_filter_info.box_air_points < f.box_filter_info.box_points
        /\ f.box_filter_info.box_points < f.box_filter_info.total_points

\* the node of the field space at position x
NodeAt(x) == CHOOSE i \in FieldNodes : field_coordinates[i] = x

\* the arrays of file f are as long as its coordinates, and row r of each
\* is the value at the node of row r, in the fields re, im, sd, ed and the
\* fields of the post-processing
AlignedRows(f, re, im, sd, ed) ==
    /\ Len(f.box_phi_real) = Len(f.box_coordinates)
    /\ Len(f.box_phi_imag) = Len(f.box_coordinates)
    /\ Len(f.box_E_real) = Len(f.box_coordinates)
    /\ Len(f.box_E_imag) = Len(f.box_coordinates)
    /\ Len(f.box_E_mag) = Len(f.box_coordinates)
    /\ Len(f.box_epsilon) = Len(f.box_coordinates)
    /\ Len(f.box_sigma) = Len(f.box_coordinates)
    /\ \A r \in 1..Len(f.box_coordinates) :
          /\ \E j \in FieldNodes : field_coordinates[j] = f.box_coordinates[r]
          /\ f.box_phi_real[r] = re[NodeAt(f.box_coordinates[r])]
          /\ f.box_phi_imag[r] = im[NodeAt(f.box_coordinates[r])]
          /\ f.box_E_real[r] = grad_phi_real[NodeAt(f.box_coordinates[r])]
          /\ f.box_E_imag[r] = grad_phi_imag[NodeAt(f.box_coordinates[r])]
          /\ f.box_E_mag[r] = E_mag[NodeAt(f.box_coordinates[r])]
          /\ f.box_epsilon[r] = ed[NodeAt(f.box_coordinates[r])]
          /\ f.box_sigma[r] = sd[NodeAt(f.box_coordinates[r])]

\* C17: all exported arrays have the same length, and row r of every
\* array belongs to the point of row r of the coordinates: each is the
\* value, on the one field space, at that node.
C17_RowsAligned ==
    \A f \in files :
        AlignedRows(f, PotentialData(f.phi_real, "real"),
                    PotentialData(f.phi_imag, "imag"),
                    sigma_data(sigma_fn), epsilon_data(epsilon_fn))

\* a file with several rows, some node of the box left out
C17_Witness ==
    \E f \in files :
        /\ Len(f.box_coordinates) > 1
        /\ Len(f.box_coordinates) < f.box_filter_info.box_points
        /\ \E r \in 1..Len(f.box_E_mag) : f.box_E_mag[r] > 0

\* C18: this run and an earlier run with the same output directory and
\* file stem never write to the same path: the earlier run's dataset is
\* not overwritten.
C18_NoSharedPath ==
    /\ \A f \in files : \A t \in earlier_runs : f.path # strftime(t)
    /\ \A t \in earlier_runs : File(strftime(t), "earlier") \in disk

(***************************************************************************)
(* The field magnitude as a function of the squared field: the array       *)
(* E_squared is drawn from a set that holds negative values, and the       *)
(* clamp and the square root are applied to it.                            *)
(***************************************************************************)
\* squared values an input array may hold
SquaredValues == {-4, 9, 10, 16}
\* nodes whose squared value varies over the inputs
VariedNodes == 0..NumCells
SquaredInputs ==
    {[i \in FieldNodes |-> IF i \in VariedNodes THEN q[i] ELSE 16] :
        q \in [VariedNodes -> SquaredValues]}

InitMagnitude ==
    /\ NoBatch
    /\ mesh_file = NominalMesh
    /\ max_conductivity \in MaxConductivities
    /\ start_time = LastInstant
    /\ earlier_runs = {}
    /\ disk = {}
    /\ export_error = "none"
    /\ grad_phi_real = NoField
    /\ grad_phi_imag = NoField
    /\ E_squared \in SquaredInputs
    /\ E_mag = NoField
    /\ conductor_stats = NoStats
    /\ scaled_sigma = NoField
    /\ simplified_sigma_fn = NoField
    /\ systems = NoSystems
    /\ pc = "magnitude"
    /\ valid_bc_ids = {}
    /\ probe_raised = {}
    /\ bcs_real = <<>>
    /\ bcs_imag = <<>>
    /\ use_spatial_method = TRUE
    /\ dm_fault = "none"
    /\ epsilon_fn = ZeroEpsilon
    /\ sigma_fn = ZeroSigma
    /\ phi_real = "full"
    /\ phi_imag = "full"
    /\ stage1_phi_real = "seed"
    /\ stage1_phi_imag = "seed"
    /\ attempts = <<>>
    /\ exc = "none"
    /\ files = {}
    /\ ret = "none"
    /\ case_result = NoResult

NextMagnitude == ComputeFieldMagnitude

SpecMagnitude == InitMagnitude /\ [][NextMagnitude]_vars

\* r is the square root of m, rounded down
IsRoot(r, m) == r >= 0 /\ r * r <= m /\ m < (r + 1) * (r + 1)

\* C19: every value of the magnitude array is the square root of
\* max(|E|^2, 0): a negative squared value is replaced by 0 before the
\* root is taken, so every value is non-negative and none is NaN.
C19_MagnitudeOfClampedSquare ==
    [][pc = "magnitude" =>
          \A i \in FieldNodes :
              /\ E_mag'[i] # NaN
              /\ E_mag'[i] >= 0
              /\ IsRoot(E_mag'[i], IF E_squared[i] < 0 THEN 0 ELSE E_squared[i])
              /\ E_squared'[i] >= 0]_vars

\* the magnitude was taken of an array that held a negative squared value
\* (no input value is 0): it is 0 there, and non-zero elsewhere
C19_Witness ==
    /\ pc = "diagnostic"
    /\ \E i \in FieldNodes : E_squared[i] = 0 /\ E_mag[i] = 0
    /\ \E i \in FieldNodes : E_squared[i] = 10 /\ E_mag[i] = 3

PastDiagnostic == pc \in {"export", "stats", "solver_returned"}

StageAt(p) ==
    CASE p \in {"start", "load_mesh"} -> "Setup"
      [] p \in {"probe", "build_bcs"} -> "BoundaryConditionBuilder"
      [] p \in {"materials", "geometric"} -> "GeometryClassifier"
      [] p = "assemble" -> "EquationAssembler"
      [] p \in {"seed_real", "seed_imag", "save_stage1", "full_real",
                "full_real_backup", "full_imag", "full_imag_backup"} ->
            "ContinuationSolver"
      [] p \in {"gradient", "magnitude", "diagnostic"} -> "FieldPostprocessor"
      [] p = "export" -> "DatasetExporter"
      [] OTHER -> "Finished"

ClaimedOrder ==
    <<"GeometryClassifier", "BoundaryConditionBuilder", "EquationAssembler",
      "ContinuationSolver", "FieldPostprocessor", "DatasetExporter">>
CodeOrder ==
    <<"BoundaryConditionBuilder", "GeometryClassifier", "EquationAssembler",
      "ContinuationSolver", "FieldPostprocessor", "DatasetExporter">>

\* the place of a stage in an order; 0 before the first stage, one past
\* the last stage once the run has left the stages
Place(order, stage) ==
    CASE stage = "Setup" -> 0
      [] stage = "Finished" -> Len(order) + 1
      [] OTHER -> CHOOSE k \in 1..Len(order) : order[k] = stage

\* a step stays in its stage, enters the next stage of the order, or
\* leaves the stages
StepInOrder(order) ==
    \/ Place(order, StageAt(pc')) = Place(order, StageAt(pc))
    \/ Place(order, StageAt(pc')) = Place(order, StageAt(pc)) + 1
    \/ StageAt(pc') = "Finished"

\* C22 as claimed: the stages run one after the other in the order
\* GeometryClassifier, BoundaryConditionBuilder, EquationAssembler,
\* ContinuationSolver, FieldPostprocessor, DatasetExporter; no stage
\* starts before the one preceding it in that order has completed.
C22_StagesInClaimedOrder == [][StepInOrder(ClaimedOrder)]_vars

\* C22: the stages run one after the other in the order
\* BoundaryConditionBuilder, GeometryClassifier, EquationAssembler,
\* ContinuationSolver, FieldPostprocessor, DatasetExporter; no stage
\* starts before the one preceding it in that order has completed.
C22_StagesInCodeOrder == [][StepInOrder(CodeOrder)]_vars

\* a run that went through all six stages and wrote its file
C22_Witness ==
    /\ pc = "stats"
    /\ Len(bcs_real) > 0
    /\ sigma_fn # ZeroSigma
    /\ systems # NoSystems
    /\ \E i \in Idx : attempts[i].stage = "full" /\ attempts[i].ok
    /\ E_mag # NoField
    /\ files # {}

(***************************************************************************)
(* Properties of the batch.                                                *)
(***************************************************************************)
\* the step appends a timed-out entry to results
ReportsTimeout ==
    /\ batch_mode = "parallel"
    /\ Len(results') = Len(results) + 1
    /\ results'[Len(results')].cause = StrTimeoutError

\* C23: in the parallel batch a scenario is reported as timed out only if
\* it has itself been executing for the timeout duration, never because
\* sibling scenarios occupied the workers or delayed the moment its result
\* was awaited.
C23_TimeoutOnlyAfterOwnExecution ==
    [][ReportsTimeout => futures[awaited].worked >= Timeout]_vars

\* scenario s has been reported as timed out
TimedOutReported(s) ==
    \E k \in 1..Len(results) :
        /\ results[k].name = CaseNames[s]
        /\ results[k].cause = StrTimeoutError

\* C24: a run interrupted by the timeout is abandoned as a whole: once it
\* has been reported as failed by timeout it performs no further work and
\* never writes a dataset file.
C24_TimedOutRunIsAbandoned ==
    [][\A s \in Scenarios : TimedOutReported(s) => futures'[s] = futures[s]]_vars

\* C25: the batch, serial and parallel, records exactly one outcome (name,
\* success flag, cause) per scenario; an exception, a False return or a
\* timeout yields a failed outcome with a non-empty cause for that
\* scenario only, and every other scenario is still run and reported.
C25_OneOutcomePerScenario ==
    /\ Len(results) <= NumScenarios
    /\ \A k \in 1..Len(results) :
          /\ results[k].name = CaseNames[k]
          /\ ~results[k].success => results[k].cause # ""
          /\ futures[k].state = "done" =>
                 \/ results[k] = Outcome(CaseNames[k], futures[k].result)
                 \/ batch_mode = "parallel" /\ ~results[k].success
    /\ batch_pc \in {"summary", "returned"} =>
          /\ Len(results) = NumScenarios
          /\ \A s \in Scenarios : futures[s].state = "done"

\* every scenario has completed or has been reported as timed out
AllReported == batch_mode = "parallel" /\ Len(results) = NumScenarios

\* C29: run_parallel returns, the summary printed, once every scenario has
\* completed or been reported as timed out, even when the worker of some
\* scenario never finishes.
C29_BatchTerminates == AllReported ~> (batch_pc = "returned")

(***************************************************************************)
(* The coefficients of the two stages, the return value, the cap.          *)
(***************************************************************************)
\* the coefficient c * 10^k is zero
IsZero(v) == v.m = Cond(0, 0)
\* two forms are the same but for the coefficient of the coupling term
DifferOnlyInSigma(f, g) == [f EXCEPT !.sigma = g.sigma] = g

\* C26: the seed-stage and full-stage systems differ only in their
\* conductivity coefficient; at every point the seed-stage coefficient is
\* 0.1 times the full-stage coefficient, so it is never the larger one.
\* Both coefficients scale the same entry of sigma_fn by a power of ten:
\* they compare as their exponents do, unless the entry is zero.
C26_SeedIsTenthOfFull ==
    systems # NoSystems =>
        /\ DifferOnlyInSigma(systems.simplified_a_real, systems.a_real)
        /\ DifferOnlyInSigma(systems.simplified_a_imag, systems.a_imag)
        /\ \A d \in Dofs :
              /\ simplified_sigma_fn[d].m = scaled_sigma[d].m
              /\ \/ IsZero(scaled_sigma[d])
                 \/ /\ simplified_sigma_fn[d].e = scaled_sigma[d].e - 1
                    /\ simplified_sigma_fn[d].e <= scaled_sigma[d].e

\* C27: whenever solve_tower_electric_field returns True, and
\* run_single_case therefore reports the scenario as successful, a dataset
\* file of that run has been written.
C27_SuccessMeansFileWritten ==
    (ret = "True" \/ case_result.success) => files # {}

\* a <= b, for conductivities with less than 1 S/m in their pS/m part
CondLeq(a, b) == a.w < b.w \/ (a.w = b.w /\ a.p <= b.p)

====
